---------------------------- MODULE Spec2Model ----------------------------
(***************************************************************************)
(* User Management System API (src/app.py, src/db.py, src/init_db.py).     *)
(*                                                                         *)
(* The state is the SQLite table `users` (rowid -> row), the AUTOINCREMENT *)
(* counter SQLite keeps for it in sqlite_sequence, the open connections    *)
(* and, per request in flight, Flask's `g` and the handler's position.     *)
(*                                                                         *)
(* A request runs in up to three steps: the handler (validation, get_db,   *)
(* the statement and its commit, the response), for PUT the re-query that  *)
(* follows an UPDATE of zero rows, and the teardown (close_db).  Requests  *)
(* of different slots interleave between these steps.  A statement and its *)
(* commit are one step: SQLite holds the write lock from the statement to  *)
(* the commit, so no other connection writes in between and every other    *)
(* connection reads the committed table.                                   *)
(***************************************************************************)
EXTENDS Integers, Sequences, FiniteSets, TLC

(* ------------------------------ bounds --------------------------------- *)

\* Largest rowid the model lets SQLite assign (three seeds and one create).
MaxId == 4

\* Request slots: the requests that can be in flight at the same time.
Slots == {"r1", "r2"}

\* Salts generate_password_hash can draw.  With one salt hashing is a
\* function of the password; nothing below rests on two salts differing.
Salts == {"s1"}

Ids == 1..MaxId

\* Request inputs.  "" stands for a JSON field that is absent, null or empty:
\* the handlers only test these values for truth.
NameIn == {"", "John Doe"}
EmailIn == {"", "john@example.com", "ann@example.com"}
PasswordIn == {"", "hunter2"}
\* john@example.com logs in with password123 (seed), ann@example.com with
\* hunter2 (once created); the other password is the wrong one.
LoginPasswordIn == {"", "password123", "hunter2"}
SearchIn == {"", "oh"}

None == "None"
NoData == [json |-> "none"]
Null == [route |-> "none"]


VARIABLES
    users,      \* the table: rowid -> [name, email, password]
    seq,        \* sqlite_sequence.seq of the table (AUTOINCREMENT)
    conns,      \* the connections that are open
    g,          \* g[r]: the connection Flask's g holds for request r, or None
    pc,         \* pc[r]: "idle", "recheck" (PUT, after UPDATE of 0 rows), "done"
    req,        \* req[r]: the request r serves and, once computed, its response
    assigned    \* history: every rowid this database file has assigned

vars == <<users, seq, conns, g, pc, req, assigned>>

(* ------------------------------ hashing -------------------------------- *)

\* The key derivation werkzeug applies to (salt, password): one-way, and
\* different for different salts or passwords.
Digest(salt, password) == <<"pbkdf2", salt, password>>

generate_password_hash(password, salt) ==
    [method |-> "pbkdf2:sha256", salt |-> salt, digest |-> Digest(salt, password)]

check_password_hash(pwhash, password) ==
    pwhash.digest = Digest(pwhash.salt, password)

(* ------------------------------- text ---------------------------------- *)

\* The characters of the strings the model uses.
Text(s) ==
    CASE s = "John Doe"    -> <<"J","o","h","n"," ","D","o","e">>
      [] s = "Jane Smith"  -> <<"J","a","n","e"," ","S","m","i","t","h">>
      [] s = "Bob Johnson" -> <<"B","o","b"," ","J","o","h","n","s","o","n">>
      [] s = "Ann Lee"     -> <<"A","n","n"," ","L","e","e">>
      [] s = "oh"          -> <<"o","h">>
      [] OTHER             -> <<>>

\* SQLite's LIKE folds ASCII case.
Fold(c) ==
    CASE c = "J" -> "j" [] c = "D" -> "d" [] c = "S" -> "s" [] c = "B" -> "b"
      [] c = "A" -> "a" [] c = "L" -> "l" [] OTHER -> c

\* name LIKE '%needle%'
Like(name, needle) ==
    LET n == Text(name)
        p == Text(needle)
    IN \E i \in 0..(Len(n) - Len(p)) :
          \A k \in 1..Len(p) : Fold(n[i + k]) = Fold(p[k])

(* ---------------------------- the table -------------------------------- *)

SetMax(S) == IF S = {} THEN 0 ELSE CHOOSE m \in S : \A x \in S : x <= m

Emails(u) == {u[i].email : i \in DOMAIN u}

\* The rowids of u in ascending order: the order of a table scan.
RECURSIVE Scan(_)
Scan(S) ==
    IF S = {} THEN <<>>
    ELSE LET m == CHOOSE x \in S : \A y \in S : x <= y
         IN <<m>> \o Scan(S \ {m})

\* INTEGER PRIMARY KEY without AUTOINCREMENT: one more than the largest
\* rowid the table holds now.
NextRowidOfTable(u, s) == SetMax(DOMAIN u) + 1

\* INTEGER PRIMARY KEY AUTOINCREMENT: one more than the largest rowid the
\* table has ever held.
NextRowid(u, s) == SetMax(DOMAIN u \cup {s}) + 1

\* Insert with the email column not declared UNIQUE.
InsertNotUnique(u, s, name, email, password) ==
    LET id == NextRowid(u, s)
    IN [error |-> "",
        users |-> [i \in DOMAIN u \cup {id} |->
                     IF i = id
                     THEN [name |-> name, email |-> email, password |-> password]
                     ELSE u[i]],
        seq |-> id,
        lastrowid |-> id]

\* INSERT OR REPLACE: the row that holds the email gives way to the new one.
InsertOrReplace(u, s, name, email, password) ==
    LET id == NextRowid(u, s)
        keep == {i \in DOMAIN u : u[i].email # email}
    IN [error |-> "",
        users |-> [i \in keep \cup {id} |->
                     IF i = id
                     THEN [name |-> name, email |-> email, password |-> password]
                     ELSE u[i]],
        seq |-> id,
        lastrowid |-> id]

\* INSERT INTO users (name, email, password) VALUES (?, ?, ?)
Insert(u, s, name, email, password) ==
    IF email \in Emails(u)
    THEN [error |-> "IntegrityError", users |-> u, seq |-> s, lastrowid |-> 0]
    ELSE LET id == NextRowid(u, s)
         IN [error |-> "",
             users |-> [i \in DOMAIN u \cup {id} |->
                          IF i = id
                          THEN [name |-> name, email |-> email, password |-> password]
                          ELSE u[i]],
             seq |-> id,
             lastrowid |-> id]

\* UPDATE users SET name = ?, email = ? WHERE id = ?, whatever the body
\* supplies.
UpdateBothFields(u, id, name, email) ==
    IF id \notin DOMAIN u
    THEN [error |-> "", users |-> u, rowcount |-> 0]
    ELSE IF email # "" /\ \E j \in DOMAIN u : j # id /\ u[j].email = email
    THEN [error |-> "IntegrityError", users |-> u, rowcount |-> 0]
    ELSE [error |-> "",
          users |-> [u EXCEPT ![id] =
                       [name |-> name, email |-> email, password |-> @.password]],
          rowcount |-> 1]

\* UPDATE users SET <the fields supplied> WHERE id = ?
Update(u, id, name, email) ==
    IF id \notin DOMAIN u
    THEN [error |-> "", users |-> u, rowcount |-> 0]
    ELSE IF email # "" /\ \E j \in DOMAIN u : j # id /\ u[j].email = email
    THEN [error |-> "IntegrityError", users |-> u, rowcount |-> 0]
    ELSE [error |-> "",
          users |-> [u EXCEPT ![id] =
                       [name |-> IF name # "" THEN name ELSE @.name,
                        email |-> IF email # "" THEN email ELSE @.email,
                        password |-> @.password]],
          rowcount |-> 1]

\* Delete that reports the row deleted and leaves it in the table (the
\* DELETE is never committed).
DeleteNotCommitted(u, id) ==
    [users |-> u, rowcount |-> IF id \in DOMAIN u THEN 1 ELSE 0]

\* DELETE FROM users WHERE id = ?
Delete(u, id) ==
    IF id \in DOMAIN u
    THEN [users |-> [i \in DOMAIN u \ {id} |-> u[i]], rowcount |-> 1]
    ELSE [users |-> u, rowcount |-> 0]

\* SELECT *: the row with its password column.
SelectStar(u, id) ==
    [id |-> id, name |-> u[id].name, email |-> u[id].email, password |-> u[id].password]

\* SELECT id, name, email: the row as the read routes serialise it.
SelectPublic(u, id) == [id |-> id, name |-> u[id].name, email |-> u[id].email]

\* The rows of S, in scan order, as dictionaries.
RowList(u, S) == [k \in 1..Cardinality(S) |-> SelectPublic(u, Scan(S)[k])]

(* --------------------------- connections ------------------------------- *)

\* sqlite3.connect(DATABASE): a connection of its own, named after the
\* request that opens it.
connect(r) == r

\* One connection kept in a module global and handed to every request.
get_db_global(r) == "shared"

\* get_db: the connection of this request's g, opened on first use.
get_db(r) == IF g[r] # None THEN g[r] ELSE connect(r)

\* The handler of request r calls get_db (once or more).
OpenDb(r) ==
    /\ g' = [g EXCEPT ![r] = get_db(r)]
    /\ conns' = conns \cup {get_db(r)}

\* The handler returns before it calls get_db.
NoDb(r) == UNCHANGED <<g, conns>>

\* db = g.pop('db', None); if db is not None: db.close()
close_db(r) ==
    /\ pc[r] = "done"
    /\ g' = [g EXCEPT ![r] = None]
    /\ conns' = IF g[r] # None THEN conns \ {g[r]} ELSE conns
    /\ pc' = [pc EXCEPT ![r] = "idle"]
    /\ req' = [req EXCEPT ![r] = Null]
    /\ UNCHANGED <<users, seq, assigned>>

(* ----------------------------- responses ------------------------------- *)

Message(status, text) == [status |-> status, body |-> [message |-> text]]

Respond(r, request, response) ==
    /\ pc' = [pc EXCEPT ![r] = "done"]
    /\ req' = [req EXCEPT ![r] = [request EXCEPT !.resp = response]]

Request(route, id, data) == [route |-> route, id |-> id, data |-> data, resp |-> Null]

\* The sample rows init_db_command inserts into a table that holds no row.
Seed(u, s, s1, s2, s3) ==
    IF Cardinality(DOMAIN u) = 0
    THEN LET a == Insert(u, s, "John Doe", "john@example.com",
                         generate_password_hash("password123", s1))
             b == Insert(a.users, a.seq, "Jane Smith", "jane@example.com",
                         generate_password_hash("secret456", s2))
             c == Insert(b.users, b.seq, "Bob Johnson", "bob@example.com",
                         generate_password_hash("qwerty789", s3))
         IN [users |-> c.users, seq |-> c.seq]
    ELSE [users |-> u, seq |-> s]

\* A database file that was just created: CREATE TABLE IF NOT EXISTS users.
NewFile == [users |-> <<>>, seq |-> 0]

\* The state after python init_db.py and the start of the app.
Init ==
    /\ \E s1, s2, s3 \in Salts :
         /\ users = Seed(NewFile.users, NewFile.seq, s1, s2, s3).users
         /\ seq = Seed(NewFile.users, NewFile.seq, s1, s2, s3).seq
    /\ conns = {}
    /\ g = [r \in Slots |-> None]
    /\ pc = [r \in Slots |-> "idle"]
    /\ req = [r \in Slots |-> Null]
    /\ assigned = DOMAIN users

\* init_db_command, run while no request is in flight: os.remove(DATABASE),
\* the schema, and the sample rows when the table is empty.
init_db_command ==
    /\ \A r \in Slots : pc[r] = "idle"
    /\ \E s1, s2, s3 \in Salts :
         LET db == Seed(NewFile.users, NewFile.seq, s1, s2, s3)
         IN /\ users' = db.users
            /\ seq' = db.seq
            /\ assigned' = DOMAIN db.users
    /\ UNCHANGED <<conns, g, pc, req>>

\* GET /
home(r) ==
    /\ pc[r] = "idle"
    /\ NoDb(r)
    /\ Respond(r, Request("home", 0, NoData),
               Message(200, "Welcome to the User Management System API"))
    /\ UNCHANGED <<users, seq, assigned>>

\* GET /users
get_all_users(r) ==
    /\ pc[r] = "idle"
    /\ OpenDb(r)
    /\ Respond(r, Request("get_all_users", 0, NoData),
               [status |-> 200, body |-> RowList(users, DOMAIN users)])
    /\ UNCHANGED <<users, seq, assigned>>

\* GET /user/<int:user_id>
get_user(r) ==
    /\ pc[r] = "idle"
    /\ \E id \in Ids :
         /\ OpenDb(r)
         /\ Respond(r, Request("get_user", id, NoData),
                    IF id \in DOMAIN users
                    THEN [status |-> 200, body |-> SelectPublic(users, id)]
                    ELSE Message(404, "User not found"))
    /\ UNCHANGED <<users, seq, assigned>>

\* The JSON bodies of POST /users: none (or an empty object), or an object
\* with name, email and password of which at most one is missing.
CreateBodies ==
    {NoData} \cup
    {b \in [name : NameIn, email : EmailIn, password : PasswordIn] :
        Cardinality({f \in {"name", "email", "password"} : b[f] = ""}) <= 1}

\* POST /users
create_user(r) ==
    /\ pc[r] = "idle"
    /\ \E data \in CreateBodies, salt \in Salts :
         LET request == Request("create_user", 0, data) IN
         IF data = NoData
         THEN /\ NoDb(r)
              /\ Respond(r, request, Message(400, "Invalid JSON"))
              /\ UNCHANGED <<users, seq, assigned>>
         ELSE IF data.name = "" \/ data.email = "" \/ data.password = ""
         THEN /\ NoDb(r)
              /\ Respond(r, request, Message(400, "Missing name, email, or password"))
              /\ UNCHANGED <<users, seq, assigned>>
         ELSE LET hashed_password == generate_password_hash(data.password, salt)
                  ins == Insert(users, seq, data.name, data.email, hashed_password)
              IN /\ OpenDb(r)
                 /\ IF ins.error = "IntegrityError"
                    THEN /\ Respond(r, request,
                                    Message(409, "User with this email already exists"))
                         /\ UNCHANGED <<users, seq, assigned>>
                    ELSE /\ ins.lastrowid <= MaxId
                         /\ users' = ins.users
                         /\ seq' = ins.seq
                         /\ assigned' = assigned \cup {ins.lastrowid}
                         /\ Respond(r, request,
                                    [status |-> 201,
                                     body |-> [message |-> "User created successfully!",
                                               user_id |-> ins.lastrowid]])

\* The ids PUT /user/<id> is called with: a seed row whose name and email the
\* bodies repeat, a seed row they change, and the id the next create assigns
\* (no row has it before).
UpdateIds == {1, 2, MaxId}

\* The JSON bodies of PUT /user/<id>.
UpdateBodies == {NoData} \cup [name : NameIn, email : EmailIn]

\* PUT /user/<int:user_id>, up to the commit of the UPDATE
update_user(r) ==
    /\ pc[r] = "idle"
    /\ \E id \in UpdateIds, data \in UpdateBodies :
         LET request == Request("update_user", id, data) IN
         IF data = NoData
         THEN /\ NoDb(r)
              /\ Respond(r, request, Message(400, "Invalid JSON"))
              /\ UNCHANGED <<users, seq, assigned>>
         ELSE IF data.name = "" /\ data.email = ""
         THEN /\ NoDb(r)
              /\ Respond(r, request, Message(400, "No data provided for update"))
              /\ UNCHANGED <<users, seq, assigned>>
         ELSE LET upd == Update(users, id, data.name, data.email)
              IN /\ OpenDb(r)
                 /\ UNCHANGED <<seq, assigned>>
                 /\ IF upd.error = "IntegrityError"
                    THEN /\ Respond(r, request,
                                    Message(409, "User with this email already exists"))
                         /\ UNCHANGED users
                    ELSE /\ users' = upd.users
                         /\ IF upd.rowcount = 0
                            THEN /\ pc' = [pc EXCEPT ![r] = "recheck"]
                                 /\ req' = [req EXCEPT ![r] = request]
                            ELSE Respond(r, request,
                                         Message(200, "User updated successfully"))

\* PUT /user/<int:user_id>, cursor.rowcount == 0: the re-query of the id
update_user_recheck(r) ==
    /\ pc[r] = "recheck"
    /\ Respond(r, req[r],
               IF req[r].id \notin DOMAIN users
               THEN Message(404, "User not found")
               ELSE Message(200, "User found but no changes made (data was identical)"))
    /\ UNCHANGED <<users, seq, assigned, conns, g>>

\* DELETE /user/<int:user_id>
delete_user(r) ==
    /\ pc[r] = "idle"
    /\ \E id \in Ids :
         LET del == Delete(users, id)
         IN /\ OpenDb(r)
            /\ users' = del.users
            /\ Respond(r, Request("delete_user", id, NoData),
                       IF del.rowcount = 0
                       THEN Message(404, "User not found")
                       ELSE Message(200, "User deleted successfully"))
    /\ UNCHANGED <<seq, assigned>>

\* GET /search?name=
search_users(r) ==
    /\ pc[r] = "idle"
    /\ \E name \in SearchIn :
         LET request == Request("search_users", 0, [name |-> name]) IN
         IF name = ""
         THEN /\ NoDb(r)
              /\ Respond(r, request,
                         Message(400, "Please provide a 'name' query parameter to search"))
         ELSE /\ OpenDb(r)
              /\ Respond(r, request,
                         [status |-> 200,
                          body |-> RowList(users,
                                           {i \in DOMAIN users : Like(users[i].name, name)})])
    /\ UNCHANGED <<users, seq, assigned>>

\* The JSON bodies of POST /login.
LoginBodies ==
    {NoData} \cup
    {b \in [email : EmailIn, password : LoginPasswordIn] : b.email # "" \/ b.password # ""}

\* A login that tells an unknown email from a wrong password.
LoginResponseTelling(u, email, password) ==
    LET found == {i \in DOMAIN u : u[i].email = email}
    IN IF found = {}
       THEN [status |-> 401, body |-> [status |-> "failed", message |-> "Unknown email"]]
       ELSE IF check_password_hash(u[SetMax(found)].password, password)
       THEN [status |-> 200, body |-> [status |-> "success", user_id |-> SetMax(found)]]
       ELSE [status |-> 401,
             body |-> [status |-> "failed", message |-> "Invalid credentials"]]

\* The response of POST /login to a body with an email and a password.
LoginResponse(u, email, password) ==
    LET found == {i \in DOMAIN u : u[i].email = email}
    IN IF found # {} /\ check_password_hash(u[SetMax(found)].password, password)
       THEN [status |-> 200, body |-> [status |-> "success", user_id |-> SetMax(found)]]
       ELSE [status |-> 401,
             body |-> [status |-> "failed", message |-> "Invalid credentials"]]

\* POST /login
login(r) ==
    /\ pc[r] = "idle"
    /\ \E data \in LoginBodies :
         LET request == Request("login", 0, data) IN
         IF data = NoData
         THEN /\ NoDb(r)
              /\ Respond(r, request, Message(400, "Invalid JSON"))
         ELSE IF data.email = "" \/ data.password = ""
         THEN /\ NoDb(r)
              /\ Respond(r, request, Message(400, "Missing email or password"))
         ELSE /\ OpenDb(r)
              /\ Respond(r, request, LoginResponse(users, data.email, data.password))
    /\ UNCHANGED <<users, seq, assigned>>

Routes == {"get_all_users", "get_user", "create_user", "update_user",
           "delete_user", "search_users", "login"}

\* A request that passed validation and whose statement raises an error of
\* the storage engine (sqlite3.OperationalError): create_user and update_user
\* catch it and answer 500; in the other handlers it leaves the handler
\* uncaught and Flask answers 500.  The teardown runs either way.
storage_error(r) ==
    /\ \/ /\ pc[r] = "idle"
          /\ \E route \in Routes :
               /\ OpenDb(r)
               /\ Respond(r, Request(route, 0, [json |-> "valid"]),
                          IF route \in {"create_user", "update_user"}
                          THEN Message(500, "An internal server error occurred")
                          ELSE [status |-> 500, body |-> [uncaught |-> "OperationalError"]])
       \/ /\ pc[r] = "recheck"
          /\ Respond(r, req[r], Message(500, "An internal server error occurred"))
          /\ UNCHANGED <<conns, g>>
    /\ UNCHANGED <<users, seq, assigned>>

Request_step(r) ==
    \/ home(r)
    \/ get_all_users(r)
    \/ get_user(r)
    \/ create_user(r)
    \/ update_user(r)
    \/ update_user_recheck(r)
    \/ delete_user(r)
    \/ search_users(r)
    \/ login(r)
    \/ close_db(r)

\* The API serving requests on the seeded database.
Next == \E r \in Slots : Request_step(r)

Spec == Init /\ [][Next]_vars

\* The API, and the bootstrap run again between requests.
NextBoot == Next \/ init_db_command

SpecBoot == Init /\ [][NextBoot]_vars

\* The API with statements that can fail.
NextFault == Next \/ \E r \in Slots : storage_error(r)

SpecFault == Init /\ [][NextFault]_vars

(* ------------------------------ claims --------------------------------- *)

\* Request r's handler runs in this step.
Handles(r) == pc[r] = "idle" /\ pc'[r] # "idle"

\* Request r's response is computed in this step.
Responds(r) == pc[r] # "done" /\ pc'[r] = "done"

Status(r) == req[r].resp.status

UniqueEmails ==
    \A i, j \in DOMAIN users : users[i].email = users[j].email => i = j

\* The request r' answers in this step is a create or an update whose email
\* is the email of a row other than the one it addresses.
TakenEmail(r) ==
    /\ req'[r].route \in {"create_user", "update_user"}
    /\ req'[r].data # NoData
    /\ req'[r].data.email # ""
    /\ \E i \in DOMAIN users : i # req'[r].id /\ users[i].email = req'[r].data.email

\* C1 as stated: no two rows ever have the same email, and every create or
\* update whose email is the email of another existing row is answered 409.
C1_TakenEmailAlways409 ==
    /\ []UniqueEmails
    /\ [][\A r \in Slots :
            Responds(r) /\ TakenEmail(r) => req'[r].resp.status = 409]_vars

\* C1, amended: no two rows ever have the same email; a create or update
\* whose email is the email of another existing row changes no row and is
\* never answered 201 or 200 "updated"; it is answered 409 whenever it
\* passes validation and, for an update, its id has a row when the UPDATE
\* runs.
C1_UniqueEmail ==
    /\ []UniqueEmails
    /\ [][\A r \in Slots :
            /\ Responds(r) /\ TakenEmail(r) =>
                 /\ req'[r].resp.status # 201
                 /\ req'[r].resp.body.message # "User updated successfully"
            /\ Handles(r) /\ TakenEmail(r) =>
                 /\ users' = users
                 /\ (\/ /\ req'[r].route = "create_user"
                        /\ req'[r].data.name # ""
                        /\ req'[r].data.password # ""
                     \/ /\ req'[r].route = "update_user"
                        /\ req'[r].id \in DOMAIN users)
                    => pc'[r] = "done" /\ req'[r].resp.status = 409]_vars

\* A create and an update are in flight, both answered 409.
C1_Witness ==
    \E r1, r2 \in Slots :
        /\ pc[r1] = "done" /\ req[r1].route = "create_user" /\ Status(r1) = 409
        /\ pc[r2] = "done" /\ req[r2].route = "update_user" /\ Status(r2) = 409

\* C2 as stated: every POST /users with an email some row has is answered
\* 409 and leaves the table as it was.
C2_DuplicateAlways409 ==
    [][\A r \in Slots :
         (/\ Handles(r)
          /\ req'[r].route = "create_user"
          /\ req'[r].data # NoData
          /\ req'[r].data.email \in Emails(users))
         => /\ req'[r].resp.status = 409
            /\ users' = users]_vars

\* C2, amended: a POST /users with a name, a password and an email some row
\* has is answered 409 (DuplicateEmail), and every POST /users with such an
\* email leaves the table as it was: no row is added and the rows keep
\* their id, name, email and password hash.
C2_DuplicateCreate ==
    [][\A r \in Slots :
         (/\ Handles(r)
          /\ req'[r].route = "create_user"
          /\ req'[r].data # NoData
          /\ req'[r].data.email \in Emails(users))
         => /\ users' = users
            /\ (req'[r].data.name # "" /\ req'[r].data.password # "")
                 => /\ req'[r].resp.status = 409
                    /\ req'[r].resp.body.message = "User with this email already exists"
            /\ (req'[r].data.name = "" \/ req'[r].data.password = "")
                 => req'[r].resp.status = 400]_vars

\* A create with the email of seed row 1 was answered 409, and row 1 is as
\* seeded.
C2_Witness ==
    \E r \in Slots :
        /\ pc[r] = "done" /\ req[r].route = "create_user" /\ Status(r) = 409
        /\ req[r].data.email = "john@example.com"
        /\ 1 \in DOMAIN users
        /\ users[1].name = "John Doe" /\ users[1].email = "john@example.com"
        /\ check_password_hash(users[1].password, "password123")

\* The values the body of an update supplies are the values row id holds.
Identical(u, id, data) ==
    /\ data.name # "" => data.name = u[id].name
    /\ data.email # "" => data.email = u[id].email

\* C3: a PUT whose name/email values are the values stored for its id is
\* answered 200 "no changes" and not 200 "updated", and a PUT for an id
\* without a row is answered 404.
C3_IdenticalPutNoChanges ==
    [][\A r \in Slots :
         (/\ Responds(r)
          /\ req'[r].route = "update_user"
          /\ req'[r].data # NoData
          /\ req'[r].data.name # "" \/ req'[r].data.email # "")
         => /\ req'[r].id \notin DOMAIN users => req'[r].resp.status = 404
            /\ (req'[r].id \in DOMAIN users /\ Identical(users, req'[r].id, req'[r].data))
                 => /\ req'[r].resp.status = 200
                    /\ req'[r].resp.body.message =
                         "User found but no changes made (data was identical)"]_vars

\* The ids that had a row and have none: the ids deleted.
Deleted == assigned \ DOMAIN users

\* C4: DELETE of an id without a row is answered 404 and changes no row;
\* DELETE of an id with a row is answered 200 and removes that row and no
\* other; an id once deleted never has a row again, so every later GET of
\* it is answered 404.
C4_DeleteThenGet404 ==
    [][/\ \A r \in Slots :
            /\ (Handles(r) /\ req'[r].route = "delete_user") =>
                 LET id == req'[r].id
                 IN IF id \in DOMAIN users
                    THEN /\ req'[r].resp.status = 200
                         /\ DOMAIN users' = DOMAIN users \ {id}
                         /\ \A i \in DOMAIN users' : users'[i] = users[i]
                    ELSE /\ req'[r].resp.status = 404
                         /\ users' = users
            /\ (Handles(r) /\ req'[r].route = "get_user" /\ req'[r].id \in Deleted) =>
                 req'[r].resp.status = 404
       /\ Deleted \subseteq Deleted']_vars

\* A GET of a deleted id was answered 404 after a create that followed the
\* delete.
C4_Witness ==
    \E r \in Slots :
        /\ pc[r] = "done" /\ req[r].route = "get_user" /\ Status(r) = 404
        /\ req[r].id \in Deleted
        /\ \E i \in DOMAIN users : i > req[r].id

\* The password is the one the hash was generated from.
Matches(pwhash, password) == pwhash = generate_password_hash(password, pwhash.salt)

Unauthorized == [status |-> 401,
                 body |-> [status |-> "failed", message |-> "Invalid credentials"]]

\* C5: a login with an email and a password is answered with one and the
\* same 401 response when no row has the email and when a row has it but
\* the password does not match the row's hash; it is answered 200 with the
\* row's id only when the row with that email has a hash of the password.
C5_LoginNoLeak ==
    [][\A r \in Slots :
         (/\ Handles(r)
          /\ req'[r].route = "login"
          /\ req'[r].data # NoData
          /\ req'[r].data.email # "" /\ req'[r].data.password # "")
         => LET d == req'[r].data
                rows == {i \in DOMAIN users : users[i].email = d.email}
            IN /\ rows = {} => req'[r].resp = Unauthorized
               /\ (\E i \in rows : ~Matches(users[i].password, d.password))
                    => req'[r].resp = Unauthorized
               /\ req'[r].resp.status \in {200, 401}
               /\ req'[r].resp.status = 200 =>
                    \E i \in rows : /\ Matches(users[i].password, d.password)
                                    /\ req'[r].resp.body.user_id = i]_vars

\* Two logins are answered: one for an email no row has, one for an email a
\* row has with a password that is not the row's; the responses are equal.
C5_Witness ==
    \E r1, r2 \in Slots :
        /\ pc[r1] = "done" /\ req[r1].route = "login" /\ Status(r1) = 401
        /\ pc[r2] = "done" /\ req[r2].route = "login" /\ Status(r2) = 401
        /\ req[r1].data.email \notin Emails(users)
        /\ \E i \in DOMAIN users :
             /\ users[i].email = req[r2].data.email
             /\ ~Matches(users[i].password, req[r2].data.password)
        /\ req[r1].resp = req[r2].resp

\* C6: the bootstrap run on a table that holds rows leaves the rows, and
\* their number, as they are.
C6_BootstrapKeepsRows ==
    [][(init_db_command /\ DOMAIN users # {}) => users' = users]_vars

\* The requests in flight that hold a connection.
Holders == {r \in Slots : g[r] # None}

ListRoutes == {"get_all_users", "search_users"}

\* The keys of the JSON objects in the response of r.
Keys(r) ==
    LET q == req[r]
    IN IF q.route \in ListRoutes /\ q.resp.status = 200
       THEN UNION {DOMAIN q.resp.body[k] : k \in DOMAIN q.resp.body}
       ELSE DOMAIN q.resp.body

\* The values of the JSON objects in the response of r, as text.
Values(r) ==
    LET q == req[r]
    IN IF q.route \in ListRoutes /\ q.resp.status = 200
       THEN UNION {{ToString(q.resp.body[k][f]) : f \in DOMAIN q.resp.body[k]} :
                     k \in DOMAIN q.resp.body}
       ELSE {ToString(q.resp.body[f]) : f \in DOMAIN q.resp.body}

\* What a response must not carry under any key, as text: the hashes the
\* table stores and the passwords requests supply.
Secrets ==
    {ToString(users[i].password) : i \in DOMAIN users} \cup
    {ToString(p) : p \in (PasswordIn \cup LoginPasswordIn) \ {""}}

\* C8: no response carries a password or a password hash, and each object
\* the read routes return has the fields id, name and email and no other.
C8_NoPasswordInResponses ==
    \A r \in Slots :
        pc[r] = "done" =>
            /\ "password" \notin Keys(r)
            /\ Values(r) \cap Secrets = {}
            /\ (req[r].route \in ListRoutes \cup {"get_user"} /\ Status(r) = 200) =>
                 /\ Keys(r) \subseteq {"id", "name", "email"}
                 /\ req[r].route = "get_user" => Keys(r) = {"id", "name", "email"}
                 /\ req[r].route \in ListRoutes =>
                      \A k \in DOMAIN req[r].resp.body :
                          DOMAIN req[r].resp.body[k] = {"id", "name", "email"}

\* The list of all users and a single user were returned, and the table
\* holds the row of a user created through the API.
C8_Witness ==
    \E r1, r2 \in Slots :
        /\ pc[r1] = "done" /\ req[r1].route = "get_all_users"
        /\ Len(req[r1].resp.body) = MaxId
        /\ pc[r2] = "done" /\ req[r2].route = "get_user" /\ Status(r2) = 200
        /\ req[r2].resp.body.id = MaxId

\* C9: a PUT answered 200 changes, in the row with its id, only the fields
\* its body supplies non-empty (an absent or empty field, the id and the
\* password hash stay), a PUT answered 200 "updated" has set those fields,
\* and no PUT changes another row or adds or removes one; a PUT answered
\* 400, 404 or 409 changes nothing.
C9_UpdateFrame ==
    [][\A r \in Slots :
         /\ (Handles(r) /\ req'[r].route = "update_user") =>
              LET q == req'[r]
              IN /\ DOMAIN users' = DOMAIN users
                 /\ \A i \in DOMAIN users : i # q.id => users'[i] = users[i]
                 /\ (pc'[r] = "done" /\ q.resp.status = 200) =>
                      /\ q.id \in DOMAIN users
                      /\ users'[q.id].password = users[q.id].password
                      /\ q.data.name = "" => users'[q.id].name = users[q.id].name
                      /\ q.data.email = "" => users'[q.id].email = users[q.id].email
                      /\ q.data.name # "" => users'[q.id].name = q.data.name
                      /\ q.data.email # "" => users'[q.id].email = q.data.email
                 /\ ~(pc'[r] = "done" /\ q.resp.status = 200) => users' = users
         /\ pc[r] = "recheck" => users' = users \/ pc'[r] = "recheck"]_vars

\* A PUT that supplied an email and no name was answered "updated", and the
\* row has the new email and the name it was seeded with.
C9_Witness ==
    \E r \in Slots :
        /\ pc[r] = "done" /\ req[r].route = "update_user" /\ Status(r) = 200
        /\ req[r].id = 2 /\ req[r].data.name = ""
        /\ 2 \in DOMAIN users
        /\ users[2].email = "ann@example.com" /\ users[2].name = "Jane Smith"

\* C10: the user_id of every successful create is greater than every id
\* assigned before it, deleted rows included, so no id is used twice; and
\* the rows that stay keep their ids: the only id a step adds is the id of
\* the create.
C10_IdsNeverReused ==
    [][/\ \A r \in Slots :
            (Handles(r) /\ req'[r].route = "create_user" /\ req'[r].resp.status = 201) =>
                /\ \A i \in assigned : req'[r].resp.body.user_id > i
                /\ DOMAIN users' = DOMAIN users \cup {req'[r].resp.body.user_id}
                /\ \A i \in DOMAIN users : users'[i] = users[i]
       /\ \A i \in DOMAIN users' \ DOMAIN users : i \notin assigned
       /\ assigned \subseteq assigned'
       /\ DOMAIN users' \subseteq assigned']_vars

\* A create was answered 201 with an id above the ids of the seeds, after
\* the row with the largest id had been deleted.
C10_Witness ==
    \E r1, r2 \in Slots :
        /\ pc[r1] = "done" /\ req[r1].route = "delete_user" /\ Status(r1) = 200
        /\ req[r1].id = 3
        /\ pc[r2] = "done" /\ req[r2].route = "create_user" /\ Status(r2) = 201
        /\ req[r2].resp.body.user_id = 4
        /\ DOMAIN users = {1, 2, 4}

=============================================================================
